---- MODULE Spec2Model ----
(***************************************************************************)
(* cargo-call-stack: the build driver of src/main.rs.                      *)
(*                                                                         *)
(* One process runs main() -> run().  Everything run() reads from outside  *)
(* (the command line, the environment, the project, the toolchain, the     *)
(* file system, the build child) is fixed in the initial state as `args'   *)
(* and `world'; the actions are the consecutive steps of run() and main(). *)
(*                                                                         *)
(* Text the code looks into (artifact names, diagnostic lines, paths) is a *)
(* sequence of one-character strings.  Option<T> is a sequence of length   *)
(* 0 (None) or 1 (Some).                                                   *)
(***************************************************************************)
EXTENDS Integers, Sequences, FiniteSets, TLC

\* ------------------------------------------------------------------ bounds
MaxNameLen == 2      \* longest artifact name
MaxLines == 3        \* most items on the build child's diagnostic stream
MaxWalk == 2         \* most entries the directory walk yields
MaxProbeLines == 2   \* most lines of `rustc --print=cfg' output

\* ------------------------------------------------------------------ Option
None == <<>>
Some(x) == <<x>>
IsSome(o) == o # <<>>
IsNone(o) == o = <<>>
Unwrap(o) == o[1]
Opt(S) == {None} \cup {Some(x) : x \in S}
\* Option::or
OrOpt(a, b) == IF IsSome(a) THEN a ELSE b
\* Option::unwrap_or
UnwrapOr(o, d) == IF IsSome(o) THEN o[1] ELSE d

\* ------------------------------------------------------------------ text
SeqsUpTo(S, n) == UNION {[1..k -> S] : k \in 0..n}
\* str::starts_with
StartsWith(s, p) == Len(s) >= Len(p) /\ SubSeq(s, 1, Len(p)) = p
\* &s[n..]
From(s, n) == SubSeq(s, n + 1, Len(s))

\* The two marker prefixes of the side channel (wrapper.rs): two distinct
\* literals with a common beginning.
COMPILER_BUILTINS_RLIB_PATH_MARKER == <<"#", "r", ":">>
COMPILER_BUILTINS_LL_PATH_MARKER == <<"#", "l", ":">>


\* ------------------------------------------------------------------ inputs
NameChars == {"a", "-"}
Names == SeqsUpTo(NameChars, MaxNameLen)
Triples == {"t1", "t2"}
HostTriple == "t0"
FeatureLists == {"f"}

\* Args (clap has parsed the command line): main.rs 26-57.  `start' and
\* `format' are handed to the analyzer untouched and are left out.
ArgsSet ==
    [target : Opt(Triples), bin : Opt(Names), example : Opt(Names),
     features : Opt(FeatureLists), all_features : BOOLEAN, verbose : BOOLEAN]

\* What the diagnostic stream of the build child can carry.  A path may
\* hold blanks anywhere; an ordinary line may look almost like a marker.
PathTexts == {<<"p">>, <<" ", "p", " ">>}
OrdinaryLines == {<<"w">>, <<"#", "r">>,
                  <<" ">> \o COMPILER_BUILTINS_LL_PATH_MARKER \o <<"p">>}
StderrLines ==
    {COMPILER_BUILTINS_RLIB_PATH_MARKER \o b : b \in PathTexts}
    \cup {COMPILER_BUILTINS_LL_PATH_MARKER \o b : b \in PathTexts}
    \cup OrdinaryLines
\* One item of `stderr.lines()': a line, or an I/O error (a broken pipe
\* read, bytes that are not UTF-8).
ReadErr == [err |-> TRUE, line |-> <<>>]
OkLine(l) == [err |-> FALSE, line |-> l]
StderrItems == {OkLine(l) : l \in StderrLines} \cup {ReadErr}

\* Lines of `rustc --print=cfg', as <<key, value, ...>>.
ProbeLines == {<<"target_os=", "\"none\"">>, <<"target_os=", "\"linux\"">>,
               <<"target_arch=", "\"arm\"">>,
               <<"target_os=", "\"none\"", "x">>}

\* ExitStatus of the child: its code, None when a signal ended it.
ExitStatuses == Opt({0, 1, 2})

\* The file system under the project root.  A file is absent, present and
\* touchable ("ok"), or present and not touchable by this user ("denied").
FileStates == {"absent", "ok", "denied"}
\* What the directory walk yields: an error, a path ending in .rs (whose
\* times can or cannot be set), any other path.
WalkEntries == {"err", "rs_ok", "rs_denied", "other"}
FsSet ==
    {f \in [main : FileStates, lib : FileStates, src_exists : BOOLEAN,
            walk : SeqsUpTo(WalkEntries, MaxWalk)] :
        \* src/main.rs and src/lib.rs live in src
        /\ ~f.src_exists => f.main = "absent" /\ f.lib = "absent"
        \* a present entry file is one of the files the walk of src meets
        /\ (f.main = "denied" \/ f.lib = "denied") =>
              \E i \in 1..Len(f.walk) : f.walk[i] # "other"}

\* Result<i32> of run(), and a panic that unwinds out of it.
Running == [kind |-> "Running", code |-> 0, msg |-> ""]
Ok(c) == [kind |-> "Ok", code |-> c, msg |-> ""]
Err(m) == [kind |-> "Err", code |-> 0, msg |-> m]
Panicked(m) == [kind |-> "Panic", code |-> 0, msg |-> m]

\* The run in which everything succeeds.
NominalArgs ==
    [target |-> None, bin |-> Some(<<"a", "-">>), example |-> None,
     features |-> None, all_features |-> FALSE, verbose |-> FALSE]
NominalStderr ==
    << OkLine(<<"w">>),
       OkLine(COMPILER_BUILTINS_RLIB_PATH_MARKER \o <<"p">>),
       OkLine(COMPILER_BUILTINS_LL_PATH_MARKER \o <<"p">>) >>
NominalWorld ==
    [sentinel |-> FALSE, wrapper_ret |-> Ok(0),
     meta_ok |-> TRUE, host |-> HostTriple,
     query_ok |-> TRUE, project_target |-> None,
     probe |-> Some(<< <<"target_os=", "\"linux\"">> >>),
     exe_ok |-> TRUE,
     fs |-> [main |-> "ok", lib |-> "absent", src_exists |-> TRUE, walk |-> <<>>],
     spawn_ok |-> TRUE, stderr |-> NominalStderr, wait_ok |-> TRUE,
     status |-> Some(0),
     path_ok |-> TRUE, analyze_ret |-> Ok(0)]

\* The inputs of a run: each group of inputs takes all its values while the
\* others stay as in the nominal run.
CliWorlds ==
    {[NominalWorld EXCEPT !.sentinel = s, !.project_target = t] :
        s \in BOOLEAN, t \in Opt(Triples)}
ToolchainWorlds ==
    {[NominalWorld EXCEPT !.meta_ok = m, !.query_ok = q, !.probe = p, !.exe_ok = e,
                          !.wrapper_ret = w, !.sentinel = s] :
        m \in BOOLEAN, q \in BOOLEAN, e \in BOOLEAN,
        p \in Opt(SeqsUpTo(ProbeLines, MaxProbeLines)),
        w \in {Ok(0), Ok(1), Err("wrapper")}, s \in BOOLEAN}
FsWorlds == {[NominalWorld EXCEPT !.fs = f] : f \in FsSet}
\* The build child: every diagnostic stream with every exit status ...
StreamWorlds ==
    {[NominalWorld EXCEPT !.stderr = l, !.status = st] :
        l \in SeqsUpTo(StderrItems, MaxLines), st \in ExitStatuses}
\* ... and every failure around it, with the short streams.
HandoffWorlds ==
    {[NominalWorld EXCEPT !.spawn_ok = sp, !.stderr = l, !.wait_ok = wt,
                          !.status = st, !.path_ok = pa, !.analyze_ret = an] :
        sp \in BOOLEAN, wt \in BOOLEAN, pa \in BOOLEAN,
        l \in SeqsUpTo(StderrItems, 1) \cup {NominalStderr}, st \in ExitStatuses,
        an \in {Ok(0), Ok(3), Err("analyze")}}
ChildWorlds == StreamWorlds \cup HandoffWorlds
Scenarios ==
    (ArgsSet \X CliWorlds)
    \cup ({NominalArgs} \X (ToolchainWorlds \cup FsWorlds \cup ChildWorlds))

\* ------------------------------------------------------------------ state
VARIABLES
    args,       \* the parsed command line
    world,      \* everything outside the process, as the run will find it
    pc,         \* where run()/main() stands
    file,       \* Option: the selected artifact name
    host,       \* Option: the host triple
    target,     \* Option: the effective target triple
    is_no_std,
    cargo,      \* Option: the build command
    touched,    \* files whose times were set, in order
    procs,      \* subprocesses run so far, in order
    pos,        \* items of the child's diagnostic stream read so far
    compiler_builtins_rlib_path,
    compiler_builtins_ll_path,
    out,        \* what this process wrote to its own diagnostic stream
    status,     \* Option: the exit status child.wait() returned
    calls,      \* invocations of cargo_call_stack::analyze
    result,     \* what run() returned
    exit_code,  \* Option: the code the process exited with
    steps       \* the steps of run() and main() taken so far, in order

vars == <<args, world, pc, file, host, target, is_no_std, cargo, touched, procs,
          pos, compiler_builtins_rlib_path, compiler_builtins_ll_path, out,
          status, calls, result, exit_code, steps>>

Init ==
    /\ \E sc \in Scenarios : args = sc[1] /\ world = sc[2]
    /\ pc = "start"
    /\ file = None /\ host = None /\ target = None
    /\ is_no_std = FALSE
    /\ cargo = None
    /\ touched = <<>> /\ procs = <<>> /\ pos = 0
    /\ compiler_builtins_rlib_path = None
    /\ compiler_builtins_ll_path = None
    /\ out = <<>>
    /\ status = None
    /\ calls = <<>>
    /\ result = Running
    /\ exit_code = None
    /\ steps = <<>>

\* ------------------------------------------------------------------ run()
Return(r) == result' = r /\ pc' = "returned"

\* wrapper::wrapper(): the process was started by the build as the compiler
\* substitute.  It runs the real compiler and returns its outcome.
Intercept ==
    /\ pc = "start"
    /\ world.sentinel
    /\ Return(world.wrapper_ret)
    /\ steps' = Append(steps, "intercept")
    /\ UNCHANGED <<args, world, file, host, target, is_no_std, cargo, touched,
                   procs, pos, compiler_builtins_rlib_path,
                   compiler_builtins_ll_path, out, status, calls, exit_code>>

\* SelectFile, but when both selectors are given the example wins.
SelectFileLenient(a) ==
    IF IsSome(a.example) THEN a.example
    ELSE IF IsSome(a.bin) THEN a.bin
    ELSE None

\* match (&args.example, &args.bin)
SelectFile(a) ==
    IF IsSome(a.example) /\ IsNone(a.bin) THEN a.example
    ELSE IF IsNone(a.example) /\ IsSome(a.bin) THEN a.bin
    ELSE None

ParseArgs ==
    /\ pc = "start"
    /\ ~world.sentinel
    /\ IF IsSome(SelectFile(args))
       THEN /\ file' = SelectFile(args)
            /\ pc' = "version_meta"
            /\ UNCHANGED result
       ELSE /\ Return(Err("Please specify either --example <NAME> or --bin <NAME>."))
            /\ UNCHANGED file
    /\ steps' = Append(steps, "parse")
    /\ UNCHANGED <<args, world, host, target, is_no_std, cargo, touched, procs,
                   pos, compiler_builtins_rlib_path, compiler_builtins_ll_path,
                   out, status, calls, exit_code>>

\* A subprocess this process started.
Proc(prog, what, t) == [prog |-> prog, what |-> what, target |-> t]

\* rustc_version::version_meta(): runs `rustc -vV'.
VersionMeta ==
    /\ pc = "version_meta"
    /\ procs' = Append(procs, Proc("rustc", "-vV", None))
    /\ IF world.meta_ok
       THEN /\ host' = Some(world.host)
            /\ pc' = "query"
            /\ UNCHANGED result
       ELSE /\ Return(Err("version_meta"))
            /\ UNCHANGED host
    /\ steps' = Append(steps, "version_meta")
    /\ UNCHANGED <<args, world, file, target, is_no_std, cargo, touched, pos,
                   compiler_builtins_rlib_path, compiler_builtins_ll_path, out,
                   status, calls, exit_code>>

\* project.target().or(target_flag).unwrap_or(&host)
EffectiveTarget(project_target, target_flag, h) ==
    UnwrapOr(OrOpt(project_target, target_flag), h)

\* env::current_dir()?, Project::query(cwd)?, and the effective target.
ProjectQuery ==
    /\ pc = "query"
    /\ IF world.query_ok
       THEN /\ target' = Some(EffectiveTarget(world.project_target, args.target,
                                              Unwrap(host)))
            /\ pc' = "probe"
            /\ UNCHANGED result
       ELSE /\ Return(Err("project"))
            /\ UNCHANGED target
    /\ steps' = Append(steps, "query")
    /\ UNCHANGED <<args, world, file, host, is_no_std, cargo, touched, procs, pos,
                   compiler_builtins_rlib_path, compiler_builtins_ll_path, out,
                   status, calls, exit_code>>

\* ScanCfg, but every target_os line decides anew.
RECURSIVE ScanCfgLastWins(_, _, _)
ScanCfgLastWins(lines, i, no_std) ==
    IF i > Len(lines) THEN no_std
    ELSE LET line == lines[i]
         IN  ScanCfgLastWins(lines, i + 1,
                 IF StartsWith(line, <<"target_os=">>)
                 THEN From(line, 1) = <<"\"none\"">>
                 ELSE no_std)

\* The loop over the lines of the probe's output, from line i on.
RECURSIVE ScanCfg(_, _, _)
ScanCfg(lines, i, no_std) ==
    IF i > Len(lines) THEN no_std
    ELSE LET line == lines[i]
             hit == /\ StartsWith(line, <<"target_os=">>)
                    /\ From(line, 1) = <<"\"none\"">>
         IN  ScanCfg(lines, i + 1, IF hit THEN TRUE ELSE no_std)

\* rustc --print=cfg --target <target>
Probe ==
    /\ pc = "probe"
    /\ procs' = Append(procs, Proc("rustc", "--print=cfg", target))
    /\ IF IsSome(world.probe)
       THEN /\ is_no_std' = ScanCfg(Unwrap(world.probe), 1, FALSE)
            /\ pc' = "command"
            /\ UNCHANGED result
       ELSE /\ Return(Err("probe"))
            /\ UNCHANGED is_no_std
    /\ steps' = Append(steps, "probe")
    /\ UNCHANGED <<args, world, file, host, target, cargo, touched, pos,
                   compiler_builtins_rlib_path, compiler_builtins_ll_path, out,
                   status, calls, exit_code>>

\* CargoTarget, but passing on the effective target.
CargoTargetInferred(a) == target

\* if let Some(target) = target_flag { cargo.args(&["--target", target]) }
CargoTarget(a) == a.target

\* CargoFeatures, but with `if' for `else if': the list is passed as well.
CargoFeaturesBoth(a) == [all_features |-> a.all_features, features |-> a.features]

\* --all-features, else --features <list>, else neither
CargoFeatures(a) ==
    IF a.all_features THEN [all_features |-> TRUE, features |-> None]
    ELSE [all_features |-> FALSE, features |-> a.features]

BuildStd(no_std) ==
    IF no_std THEN "-Zbuild-std=core,alloc,compiler_builtins" ELSE "-Zbuild-std"

\* CargoEnv, but without the sentinel.
CargoEnvNoSentinel == [RUSTC_WRAPPER |-> "current_exe"]

\* cargo.env("CARGO_CALL_STACK_RUSTC_WRAPPER", "1");
\* cargo.env("RUSTC_WRAPPER", env::current_exe()?)
CargoEnv == [CARGO_CALL_STACK_RUSTC_WRAPPER |-> "1", RUSTC_WRAPPER |-> "current_exe"]

\* env::var_os("CARGO_CALL_STACK_RUSTC_WRAPPER").is_some(), for a process
\* started with the environment additions env.
SentinelPresent(env) == "CARGO_CALL_STACK_RUSTC_WRAPPER" \in DOMAIN env

\* The `cargo rustc' command as run() assembles it.
CargoCommand(a, f, no_std) ==
    [target |-> CargoTarget(a),
     all_features |-> CargoFeatures(a).all_features,
     features |-> CargoFeatures(a).features,
     example |-> IF IsSome(a.example) THEN Some(f) ELSE None,
     bin |-> IF IsSome(a.bin) THEN Some(f) ELSE None,
     release |-> TRUE,
     build_std |-> BuildStd(no_std),
     rustc_args |-> <<"--emit=llvm-ir,obj", "-C", "embed-bitcode=yes", "-C", "lto=fat">>,
     env |-> CargoEnv,
     stderr |-> "piped"]

BuildCommand ==
    /\ pc = "command"
    /\ IF world.exe_ok
       THEN /\ cargo' = Some(CargoCommand(args, Unwrap(file), is_no_std))
            /\ pc' = "touch"
            /\ UNCHANGED result
       ELSE /\ Return(Err("current_exe"))
            /\ UNCHANGED cargo
    /\ steps' = Append(steps, "command")
    /\ UNCHANGED <<args, world, file, host, target, is_no_std, touched, procs, pos,
                   compiler_builtins_rlib_path, compiler_builtins_ll_path, out,
                   status, calls, exit_code>>

\* ------------------------------------------------------------------ touch
\* A file under the project root: <<path, 0>>, or <<haystack, i>> for the
\* i-th entry of the walk of the haystack.
MainRs == <<"src/main.rs", 0>>
LibRs == <<"src/lib.rs", 0>>
Haystack(fs) == IF fs.src_exists THEN "src" ELSE "."

\* filetime::set_file_times(..).is_ok()
SetFileTimes(state) == state = "ok"

\* WalkAndTouch, but a walk that finds no .rs path is an error.
RECURSIVE WalkAndTouchMustFind(_, _)
WalkAndTouchMustFind(fs, i) ==
    IF i > Len(fs.walk) THEN [touched |-> <<>>, err |-> Some("walk")]
    ELSE IF fs.walk[i] = "err" THEN [touched |-> <<>>, err |-> Some("walk")]
    ELSE IF fs.walk[i] = "rs_ok"
         THEN [touched |-> << <<Haystack(fs), i>> >>, err |-> None]
    ELSE IF fs.walk[i] = "rs_denied" THEN [touched |-> <<>>, err |-> Some("touch")]
    ELSE WalkAndTouchMustFind(fs, i + 1)

\* for entry in WalkDir::new(haystack), from entry i on: the first path with
\* the extension rs is touched and ends the loop; `entry?' and the `?' on
\* that touch return the error.
RECURSIVE WalkAndTouch(_, _)
WalkAndTouch(fs, i) ==
    IF i > Len(fs.walk) THEN [touched |-> <<>>, err |-> None]
    ELSE IF fs.walk[i] = "err" THEN [touched |-> <<>>, err |-> Some("walk")]
    ELSE IF fs.walk[i] = "rs_ok"
         THEN [touched |-> << <<Haystack(fs), i>> >>, err |-> None]
    ELSE IF fs.walk[i] = "rs_denied" THEN [touched |-> <<>>, err |-> Some("touch")]
    ELSE WalkAndTouch(fs, i + 1)

\* RebuildForce, but going on to the library entry file after the binary one.
RebuildForceBoth(fs) ==
    IF SetFileTimes(fs.main)
    THEN [touched |-> IF SetFileTimes(fs.lib) THEN <<MainRs, LibRs>> ELSE <<MainRs>>,
          err |-> None]
    ELSE IF SetFileTimes(fs.lib) THEN [touched |-> <<LibRs>>, err |-> None]
    ELSE WalkAndTouch(fs, 1)

\* "touch" some source file to trigger a rebuild
RebuildForce(fs) ==
    IF SetFileTimes(fs.main) THEN [touched |-> <<MainRs>>, err |-> None]
    ELSE IF SetFileTimes(fs.lib) THEN [touched |-> <<LibRs>>, err |-> None]
    ELSE WalkAndTouch(fs, 1)

Touch ==
    /\ pc = "touch"
    /\ LET r == RebuildForce(world.fs)
       IN  /\ touched' = touched \o r.touched
           /\ IF IsSome(r.err)
              THEN Return(Err(Unwrap(r.err)))
              ELSE pc' = "spawn" /\ UNCHANGED result
    /\ steps' = Append(steps, "touch")
    /\ UNCHANGED <<args, world, file, host, target, is_no_std, cargo, procs, pos,
                   compiler_builtins_rlib_path, compiler_builtins_ll_path, out,
                   status, calls, exit_code>>

\* ------------------------------------------------------------------ build
\* One line on this process's own diagnostic stream.
OutLine(kind, text) == [kind |-> kind, text |-> text]

\* Spawn, but a failed spawn is tried a second time.
SpawnRetry ==
    /\ pc = "spawn"
    /\ out' = IF args.verbose THEN Append(out, OutLine("verbose", <<"cargo">>))
              ELSE out
    /\ IF world.spawn_ok
       THEN /\ procs' = Append(procs, Proc("cargo", "rustc", Unwrap(cargo).target))
            /\ pc' = "read"
            /\ UNCHANGED result
       ELSE /\ IF \E i \in 1..Len(steps) : steps[i] = "spawn"
               THEN Return(Err("spawn"))
               ELSE UNCHANGED <<pc, result>>
            /\ UNCHANGED procs
    /\ steps' = Append(steps, "spawn")
    /\ UNCHANGED <<args, world, file, host, target, is_no_std, cargo, touched, pos,
                   compiler_builtins_rlib_path, compiler_builtins_ll_path,
                   status, calls, exit_code>>

\* if args.verbose { eprintln!("{:?}", cargo) }, then cargo.spawn()?
Spawn ==
    /\ pc = "spawn"
    /\ out' = IF args.verbose THEN Append(out, OutLine("verbose", <<"cargo">>))
              ELSE out
    /\ IF world.spawn_ok
       THEN /\ procs' = Append(procs, Proc("cargo", "rustc", Unwrap(cargo).target))
            /\ pc' = "read"
            /\ UNCHANGED result
       ELSE /\ Return(Err("spawn"))
            /\ UNCHANGED procs
    /\ steps' = Append(steps, "spawn")
    /\ UNCHANGED <<args, world, file, host, target, is_no_std, cargo, touched, pos,
                   compiler_builtins_rlib_path, compiler_builtins_ll_path,
                   status, calls, exit_code>>

\* s has p somewhere in it.
Contains(s, p) ==
    \E k \in 0..(Len(s) - Len(p)) : SubSeq(s, k + 1, k + Len(p)) = p

\* Classify, but looking for the marker anywhere in the line.
ClassifyContains(line) ==
    IF Contains(line, COMPILER_BUILTINS_RLIB_PATH_MARKER) THEN "rlib"
    ELSE IF Contains(line, COMPILER_BUILTINS_LL_PATH_MARKER) THEN "ll"
    ELSE "echo"

\* The branch the reader loop takes for a line.
Classify(line) ==
    IF StartsWith(line, COMPILER_BUILTINS_RLIB_PATH_MARKER) THEN "rlib"
    ELSE IF StartsWith(line, COMPILER_BUILTINS_LL_PATH_MARKER) THEN "ll"
    ELSE "echo"

\* s without its leading blanks.
RECURSIVE TrimStart(_)
TrimStart(s) ==
    IF s # <<>> /\ Head(s) = " " THEN TrimStart(Tail(s)) ELSE s

\* MarkerPath, but trimmed.
MarkerPathTrimmed(line, marker) == TrimStart(From(line, Len(marker)))

\* &line[MARKER.len()..]
MarkerPath(line, marker) == From(line, Len(marker))

\* ReadLine, but a slot that is set keeps its first value.
ReadLineFirstWins ==
    /\ pc = "read"
    /\ pos < Len(world.stderr)
    /\ LET item == world.stderr[pos + 1]
           kind == Classify(item.line)
       IN  /\ pos' = pos + 1
           /\ IF item.err
              THEN /\ Return(Err("read"))
                   /\ UNCHANGED <<compiler_builtins_rlib_path,
                                  compiler_builtins_ll_path, out>>
              ELSE /\ UNCHANGED <<pc, result>>
                   /\ compiler_builtins_rlib_path' =
                         IF kind = "rlib" /\ IsNone(compiler_builtins_rlib_path)
                         THEN Some(MarkerPath(item.line,
                                              COMPILER_BUILTINS_RLIB_PATH_MARKER))
                         ELSE compiler_builtins_rlib_path
                   /\ compiler_builtins_ll_path' =
                         IF kind = "ll" /\ IsNone(compiler_builtins_ll_path)
                         THEN Some(MarkerPath(item.line,
                                              COMPILER_BUILTINS_LL_PATH_MARKER))
                         ELSE compiler_builtins_ll_path
                   /\ out' = IF kind = "echo"
                             THEN Append(out, OutLine("echo", item.line))
                             ELSE out
    /\ steps' = Append(steps, "read")
    /\ UNCHANGED <<args, world, file, host, target, is_no_std, cargo, touched,
                   procs, status, calls, exit_code>>

\* One iteration of `for line in stderr.lines()'.
ReadLine ==
    /\ pc = "read"
    /\ pos < Len(world.stderr)
    /\ LET item == world.stderr[pos + 1]
           kind == Classify(item.line)
       IN  /\ pos' = pos + 1
           /\ IF item.err
              THEN /\ Return(Err("read"))
                   /\ UNCHANGED <<compiler_builtins_rlib_path,
                                  compiler_builtins_ll_path, out>>
              ELSE /\ UNCHANGED <<pc, result>>
                   /\ compiler_builtins_rlib_path' =
                         IF kind = "rlib"
                         THEN Some(MarkerPath(item.line,
                                              COMPILER_BUILTINS_RLIB_PATH_MARKER))
                         ELSE compiler_builtins_rlib_path
                   /\ compiler_builtins_ll_path' =
                         IF kind = "ll"
                         THEN Some(MarkerPath(item.line,
                                              COMPILER_BUILTINS_LL_PATH_MARKER))
                         ELSE compiler_builtins_ll_path
                   /\ out' = IF kind = "echo"
                             THEN Append(out, OutLine("echo", item.line))
                             ELSE out
    /\ steps' = Append(steps, "read")
    /\ UNCHANGED <<args, world, file, host, target, is_no_std, cargo, touched,
                   procs, status, calls, exit_code>>

\* EndOfStream, but the loop may end before the stream does.
EndOfStreamEarly ==
    /\ pc = "read"
    /\ pc' = "wait"
    /\ steps' = Append(steps, "eof")
    /\ UNCHANGED <<args, world, file, host, target, is_no_std, cargo, touched,
                   procs, pos, compiler_builtins_rlib_path,
                   compiler_builtins_ll_path, out, status, calls, result,
                   exit_code>>

\* stderr.lines() is exhausted: the loop ends.
EndOfStream ==
    /\ pc = "read"
    /\ pos = Len(world.stderr)
    /\ pc' = "wait"
    /\ steps' = Append(steps, "eof")
    /\ UNCHANGED <<args, world, file, host, target, is_no_std, cargo, touched,
                   procs, pos, compiler_builtins_rlib_path,
                   compiler_builtins_ll_path, out, status, calls, result,
                   exit_code>>

\* status.success()
Success(st) == st = Some(0)
\* ExitCodeOf, but with unwrap_or_default.
ExitCodeOrZero(st) == UnwrapOr(st, 0)

\* ExitCodeOf, but every failed build is reported as 1.
ExitCodeAlwaysOne(st) == 1

\* status.code().unwrap_or(1)
ExitCodeOf(st) == UnwrapOr(st, 1)

\* let status = child.wait()?; if !status.success() { return Ok(..) }
Wait ==
    /\ pc = "wait"
    /\ IF ~world.wait_ok
       THEN Return(Err("wait")) /\ UNCHANGED status
       ELSE /\ status' = Some(world.status)
            /\ IF Success(world.status)
               THEN pc' = "handoff" /\ UNCHANGED result
               ELSE Return(Ok(ExitCodeOf(world.status)))
    /\ steps' = Append(steps, "wait")
    /\ UNCHANGED <<args, world, file, host, target, is_no_std, cargo, touched,
                   procs, pos, compiler_builtins_rlib_path,
                   compiler_builtins_ll_path, out, calls, exit_code>>

\* ------------------------------------------------------------------ handoff
\* Expect, but an absent value becomes the empty text (unwrap_or_default).
ExpectOrDefault(o, msg) == [ok |-> TRUE, val |-> UnwrapOr(o, <<>>), msg |-> ""]

\* Option::expect: the value, or a panic with the message.
Expect(o, msg) ==
    IF IsSome(o) THEN [ok |-> TRUE, val |-> Unwrap(o), msg |-> ""]
    ELSE [ok |-> FALSE, val |-> <<>>, msg |-> msg]

\* str::replace(from, to), one character for one character.
Replace(s, from, to) == [i \in 1..Len(s) |-> IF s[i] = from THEN to ELSE s[i]]

\* str::replacen(from, to, 1): only the first occurrence.
ReplaceFirst(s, from, to) ==
    [i \in 1..Len(s) |->
        IF s[i] = from /\ \A j \in 1..(i - 1) : s[j] # from THEN to ELSE s[i]]

\* DisambiguationPrefix, but replacing only the first hyphen.
DisambiguationPrefixFirstOnly(f) == ReplaceFirst(f, "-", "_") \o <<"-">>

\* format!("{}-", file.replace('-', "_"))
DisambiguationPrefix(f) == Replace(f, "-", "_") \o <<"-">>

\* project.path(Artifact::Example(file) | Artifact::Bin(file), profile,
\*              target_flag, &host)
ArtifactPath(a, f, h) ==
    [kind |-> IF IsSome(a.example) THEN "example" ELSE "bin",
     name |-> f, target_flag |-> a.target, host |-> h]

\* The arguments of cargo_call_stack::analyze.
AnalyzeCall(a, w, f, h, rlib, ll) ==
    [path |-> ArtifactPath(a, f, h),
     compiler_builtins_rlib_path |-> rlib,
     compiler_builtins_ll_path |-> ll,
     target |-> EffectiveTarget(w.project_target, a.target, h),
     prefix |-> DisambiguationPrefix(f)]

Panic(msg) == result' = Panicked(msg) /\ pc' = "panicked"

Handoff ==
    /\ pc = "handoff"
    /\ LET rlib == Expect(compiler_builtins_rlib_path,
                          "compiler_builtins was not linked")
           ll == Expect(compiler_builtins_ll_path,
                        "compiler_builtins LLVM IR unavailable")
       IN  IF ~rlib.ok THEN Panic(rlib.msg) /\ UNCHANGED calls
           ELSE IF ~ll.ok THEN Panic(ll.msg) /\ UNCHANGED calls
           ELSE IF ~world.path_ok THEN Return(Err("path")) /\ UNCHANGED calls
           ELSE /\ calls' = Append(calls, AnalyzeCall(args, world, Unwrap(file),
                                                      Unwrap(host), rlib.val, ll.val))
                /\ Return(world.analyze_ret)
    /\ steps' = Append(steps, "handoff")
    /\ UNCHANGED <<args, world, file, host, target, is_no_std, cargo, touched,
                   procs, pos, compiler_builtins_rlib_path,
                   compiler_builtins_ll_path, out, status, exit_code>>

\* ------------------------------------------------------------------ main()
\* The exit code of a process whose main thread panicked.
PanicExitCode == 101

\* match run() { Ok(ec) => exit(ec), Err(e) => { eprintln!("error: {}", e); exit(1) } }
MainExit ==
    /\ pc = "returned"
    /\ IF result.kind = "Ok"
       THEN exit_code' = Some(result.code) /\ UNCHANGED out
       ELSE /\ out' = Append(out, OutLine("error", <<result.msg>>))
            /\ exit_code' = Some(1)
    /\ pc' = "exited"
    /\ steps' = Append(steps, "exit")
    /\ UNCHANGED <<args, world, file, host, target, is_no_std, cargo, touched,
                   procs, pos, compiler_builtins_rlib_path,
                   compiler_builtins_ll_path, status, calls, result>>

\* A panic in run() does not come back to main(): the runtime prints the
\* panic message and the process ends.
PanicAbort ==
    /\ pc = "panicked"
    /\ out' = Append(out, OutLine("panic", <<result.msg>>))
    /\ exit_code' = Some(PanicExitCode)
    /\ pc' = "exited"
    /\ steps' = Append(steps, "abort")
    /\ UNCHANGED <<args, world, file, host, target, is_no_std, cargo, touched,
                   procs, pos, compiler_builtins_rlib_path,
                   compiler_builtins_ll_path, status, calls, result>>

Next ==
    \/ Intercept
    \/ ParseArgs
    \/ VersionMeta
    \/ ProjectQuery
    \/ Probe
    \/ BuildCommand
    \/ Touch
    \/ Spawn
    \/ ReadLine
    \/ EndOfStream
    \/ Wait
    \/ Handoff
    \/ MainExit
    \/ PanicAbort

Spec == Init /\ [][Next]_vars

\* The steps of one process follow one another without end until it exits:
\* nothing but the blocking read and the blocking wait can hold it up, and
\* the build child closes its stream and exits.
FairSpec == Init /\ [][Next]_vars /\ WF_vars(Next)

\* ==================================================================
\* Properties
\* ==================================================================
Finished == pc \in {"returned", "panicked", "exited"}
\* The build child was spawned.
Spawned == \E i \in 1..Len(procs) : procs[i].prog = "cargo"
ConfigError == Err("Please specify either --example <NAME> or --bin <NAME>.")

\* Neither or both of --bin and --example are given.
BadSelectors == IsSome(args.bin) <=> IsSome(args.example)

\* C1: in a normal-mode run with neither or both selectors, run() fails with
\* the configuration error, and until then and ever after no subprocess has
\* been run, no file touched and no build command assembled.
C1_ConfigErrorBeforeAnySubprocess ==
    (~world.sentinel /\ BadSelectors) =>
        /\ procs = <<>>
        /\ touched = <<>>
        /\ cargo = None
        /\ pc # "start" => Finished /\ result = ConfigError
        /\ pc = "exited" => exit_code = Some(1)

C1_Witness ==
    /\ ~world.sentinel
    /\ IsSome(args.bin) /\ IsSome(args.example)
    /\ pc = "returned"
    /\ result = ConfigError

\* C2: when the build child exits with a nonzero code, the analyzer is never
\* invoked, any exit code run() returns is the child's code, and once the
\* child's status has been obtained run() returns exactly that code.
C2_BuildFailurePropagated ==
    (IsSome(world.status) /\ Unwrap(world.status) # 0) =>
        /\ calls = <<>>
        /\ (Spawned /\ result.kind = "Ok") => result.code = Unwrap(world.status)
        /\ (IsSome(status) /\ Finished) => result = Ok(Unwrap(world.status))
        /\ (IsSome(status) /\ pc = "exited") => exit_code = world.status

C2_Witness ==
    /\ status = Some(Some(2))
    /\ pc = "exited"
    /\ exit_code = Some(2)
    /\ calls = <<>>

MissingArtifactMessages ==
    {"compiler_builtins was not linked", "compiler_builtins LLVM IR unavailable"}

\* C3: after a build that exited with status zero, a missing archive path or
\* a missing IR path makes the run fail with the missing-artifact message
\* without invoking the analyzer; the analyzer is invoked only with both
\* marker values present.
C3_MissingArtifactFails ==
    /\ calls # <<>> =>
          /\ IsSome(compiler_builtins_rlib_path)
          /\ IsSome(compiler_builtins_ll_path)
    /\ ( /\ status = Some(Some(0))
         /\ IsNone(compiler_builtins_rlib_path) \/ IsNone(compiler_builtins_ll_path)
         /\ pc # "handoff" ) =>
          /\ calls = <<>>
          /\ result.kind = "Panic"
          /\ result.msg \in MissingArtifactMessages
          /\ pc = "exited" => exit_code # Some(0)

C3_Witness ==
    /\ status = Some(Some(0))
    /\ IsSome(compiler_builtins_rlib_path)
    /\ IsNone(compiler_builtins_ll_path)
    /\ pc = "exited"
    /\ calls = <<>>

\* The lines this process echoed, in order.
IsEcho(o) == o.kind = "echo"
Echoed ==
    LET e == SelectSeq(out, IsEcho) IN [i \in 1..Len(e) |-> e[i].text]
\* The lines read so far from the child's diagnostic stream, in order.
IsLine(item) == ~item.err
LinesRead ==
    LET r == SelectSeq(SubSeq(world.stderr, 1, pos), IsLine)
    IN  [i \in 1..Len(r) |-> r[i].line]
IsRlibLine(l) == StartsWith(l, COMPILER_BUILTINS_RLIB_PATH_MARKER)
IsLlLine(l) == StartsWith(l, COMPILER_BUILTINS_LL_PATH_MARKER)
IsOrdinary(l) == ~IsRlibLine(l) /\ ~IsLlLine(l)
\* The reader loop has seen the end of the stream.
EofReached ==
    pc \in {"wait", "handoff", "panicked"} \/ IsSome(status) \/ result = Err("wait")

\* C4: the echoed lines are exactly the lines read that carry neither marker
\* prefix, in their order, each once; at end-of-stream every item of the
\* stream has been read.
C4_EchoIsOrdinarySubsequence ==
    /\ Echoed = SelectSeq(LinesRead, IsOrdinary)
    /\ EofReached => /\ pos = Len(world.stderr)
                     /\ \A i \in 1..Len(world.stderr) : ~world.stderr[i].err

C4_Witness ==
    /\ pc = "wait"
    /\ Len(world.stderr) = 3
    /\ IsOrdinary(world.stderr[1].line)
    /\ IsLlLine(world.stderr[2].line)
    /\ IsOrdinary(world.stderr[3].line)
    /\ world.stderr[1].line # world.stderr[3].line
    /\ Echoed = <<world.stderr[1].line, world.stderr[3].line>>

\* Where on the stream the lines with a marker prefix are.
RlibAt == {i \in 1..Len(world.stderr) : IsLine(world.stderr[i])
                                         /\ IsRlibLine(world.stderr[i].line)}
LlAt == {i \in 1..Len(world.stderr) : IsLine(world.stderr[i])
                                       /\ IsLlLine(world.stderr[i].line)}
\* What follows the first n characters of s, character by character.
Rest(s, n) == [k \in 1..(Len(s) - n) |-> s[n + k]]

\* C5: when the stream holds exactly one archive-marker line and exactly one
\* IR-marker line, at end-of-stream each stored path is what follows the
\* prefix on that line, blanks included.
C5_PathsAreSuffixes ==
    (EofReached /\ Cardinality(RlibAt) = 1 /\ Cardinality(LlAt) = 1) =>
        \A i \in RlibAt, j \in LlAt :
            /\ compiler_builtins_rlib_path =
                  Some(Rest(world.stderr[i].line,
                            Len(COMPILER_BUILTINS_RLIB_PATH_MARKER)))
            /\ compiler_builtins_ll_path =
                  Some(Rest(world.stderr[j].line,
                            Len(COMPILER_BUILTINS_LL_PATH_MARKER)))

C5_Witness ==
    /\ EofReached
    /\ Cardinality(RlibAt) = 1 /\ Cardinality(LlAt) = 1
    /\ compiler_builtins_rlib_path = Some(<<" ", "p", " ">>)
    /\ compiler_builtins_ll_path = Some(<<"p">>)

\* Rebuild forcing has run (it is the step after the command is assembled).
TouchDone == IsSome(cargo) /\ pc # "touch"
IsWalkFile(f) == f[2] > 0
\* The walk meets no error and no .rs path before entry i.
OnlyOthersBefore(fs, i) == \A j \in 1..(i - 1) : fs.walk[j] = "other"

\* C6 as stated: the binary entry file is touched when present, the library
\* entry file only when the binary one is absent, a walk entry only when
\* both are absent, and then the first .rs path found; at most one file.
C6_AsStated ==
    TouchDone =>
        /\ Len(touched) <= 1
        /\ world.fs.main # "absent" => touched = <<MainRs>>
        /\ touched = <<LibRs>> => world.fs.main = "absent"
        /\ \A k \in 1..Len(touched) : IsWalkFile(touched[k]) =>
              /\ world.fs.main = "absent" /\ world.fs.lib = "absent"
              /\ touched[k][1] = Haystack(world.fs)
              /\ world.fs.walk[touched[k][2]] \in {"rs_ok", "rs_denied"}
              /\ OnlyOthersBefore(world.fs, touched[k][2])

\* C6, amended: candidates are tried in strict order, and the first touch
\* that succeeds ends the tries.  The binary entry file is touched when its
\* touch succeeds; the library entry file exactly when the touch of the
\* binary one failed and its own succeeds; a walk entry only when both
\* touches failed, and then it is the first .rs path the walk yields; at
\* most one file is touched.
C6_FirstSuccessfulTouch ==
    TouchDone =>
        /\ Len(touched) <= 1
        /\ world.fs.main = "ok" => touched = <<MainRs>>
        /\ touched = <<LibRs>> <=> (world.fs.main # "ok" /\ world.fs.lib = "ok")
        /\ \A k \in 1..Len(touched) : IsWalkFile(touched[k]) =>
              /\ world.fs.main # "ok" /\ world.fs.lib # "ok"
              /\ touched[k][1] = Haystack(world.fs)
              /\ world.fs.walk[touched[k][2]] = "rs_ok"
              /\ OnlyOthersBefore(world.fs, touched[k][2])
        /\ \A i \in 1..Len(world.fs.walk) :
              ( /\ world.fs.main # "ok" /\ world.fs.lib # "ok"
                /\ world.fs.walk[i] = "rs_ok"
                /\ OnlyOthersBefore(world.fs, i) ) =>
                  touched = << <<Haystack(world.fs), i>> >>

C6_Witness ==
    /\ TouchDone
    /\ world.fs.main = "denied"
    /\ world.fs.lib = "ok"
    /\ touched = <<LibRs>>
    /\ pc = "exited"

\* The artifact the command line selects.
ArtifactName ==
    IF IsSome(args.example) THEN Unwrap(args.example) ELSE Unwrap(args.bin)

\* C7: the prefix handed to the analyzer is the artifact name, each hyphen
\* replaced by an underscore, followed by one separator.
C7_PrefixReplacesEveryHyphen ==
    \A k \in 1..Len(calls) :
        LET p == calls[k].prefix
            n == ArtifactName
        IN  /\ Len(p) = Len(n) + 1
            /\ p[Len(p)] = "-"
            /\ \A i \in 1..Len(n) :
                  /\ p[i] = (IF n[i] = "-" THEN "_" ELSE n[i])
                  /\ p[i] # "-"

C7_Witness ==
    /\ calls # <<>>
    /\ ArtifactName = <<"-", "-">>
    /\ calls[1].prefix = <<"_", "_", "-">>

\* The triple the claim names: the flag, else the project's, else the host's.
FlagFirstTarget ==
    IF IsSome(args.target) THEN Unwrap(args.target)
    ELSE IF IsSome(world.project_target) THEN Unwrap(world.project_target)
    ELSE world.host

\* C8 as stated: the effective target, the one the toolchain probe is run
\* for and the one the analyzer gets, is the explicit flag when given, else
\* the project's default, else the host.
C8_ExplicitFlagFirst ==
    /\ IsSome(target) => Unwrap(target) = FlagFirstTarget
    /\ \A i \in 1..Len(procs) :
          procs[i].what = "--print=cfg" => procs[i].target = Some(FlagFirstTarget)
    /\ \A k \in 1..Len(calls) : calls[k].target = FlagFirstTarget

IsErrorLine(o) == o.kind = "error"

\* C9 as stated: every normal-mode run that ends in a fatal error ends with
\* exactly one "error:" line, written last, and exit code 1.
C9_UniformFatalOutcome ==
    (pc = "exited" /\ ~world.sentinel /\ result.kind # "Ok") =>
        /\ exit_code = Some(1)
        /\ Len(SelectSeq(out, IsErrorLine)) = 1
        /\ out[Len(out)].kind = "error"

\* C10: the build command carries a target exactly when --target was given,
\* and then that value; so does the build that is spawned.
C10_BuildTargetIsFlagOnly ==
    /\ IsSome(cargo) => Unwrap(cargo).target = args.target
    /\ \A i \in 1..Len(procs) :
          procs[i].prog = "cargo" => procs[i].target = args.target

C10_Witness ==
    /\ Spawned
    /\ IsNone(args.target)
    /\ world.project_target = Some("t1")
    /\ Unwrap(cargo).target = None
    /\ \E i \in 1..Len(procs) :
          procs[i].what = "--print=cfg" /\ procs[i].target = Some("t1")
    /\ calls # <<>>
    /\ calls[1].target = "t1"


\* C11: the build command carries --all-features alone when all features
\* are requested, the feature list when they are not and a list is given,
\* and neither otherwise; never both.
C11_FeaturesEitherOr ==
    IsSome(cargo) =>
        LET c == Unwrap(cargo)
        IN  /\ args.all_features => c.all_features /\ IsNone(c.features)
            /\ (~args.all_features /\ IsSome(args.features)) =>
                  ~c.all_features /\ c.features = args.features
            /\ (~args.all_features /\ IsNone(args.features)) =>
                  ~c.all_features /\ IsNone(c.features)
            /\ ~(c.all_features /\ IsSome(c.features))

C11_Witness ==
    /\ Spawned
    /\ args.all_features
    /\ IsSome(args.features)
    /\ Unwrap(cargo).all_features
    /\ IsNone(Unwrap(cargo).features)

RestrictedBuildStd == "-Zbuild-std=core,alloc,compiler_builtins"
\* The probe's output has a line that is exactly target_os="none".
ProbeSaysNone ==
    \E i \in 1..Len(Unwrap(world.probe)) :
        Unwrap(world.probe)[i] = <<"target_os=", "\"none\"">>

\* C12: the build asks for the restricted standard-library set exactly when
\* some line of the probe's output gives target_os the value "none", and
\* for the full default set otherwise; a later line does not undo it.
C12_RestrictedSetIffNone ==
    IsSome(cargo) =>
        /\ Unwrap(cargo).build_std \in {RestrictedBuildStd, "-Zbuild-std"}
        /\ Unwrap(cargo).build_std = RestrictedBuildStd <=> ProbeSaysNone
        /\ is_no_std <=> ProbeSaysNone

C12_Witness ==
    /\ Spawned
    /\ Len(Unwrap(world.probe)) >= 2
    /\ Unwrap(world.probe)[1] = <<"target_os=", "\"none\"">>
    /\ Unwrap(world.probe)[2] = <<"target_os=", "\"linux\"">>
    /\ Unwrap(cargo).build_std = RestrictedBuildStd


\* How often a step was taken, and whether every b came after some a.
Count(a) == Cardinality({i \in 1..Len(steps) : steps[i] = a})
Before(a, b) ==
    \A j \in 1..Len(steps) : steps[j] = b => \E i \in 1..(j - 1) : steps[i] = a
ProbeRuns == {i \in 1..Len(procs) : procs[i].what = "--print=cfg"}
BuildRuns == {i \in 1..Len(procs) : procs[i].prog = "cargo"}

\* C13: the steps of a normal-mode run come in the order probe, rebuild
\* forcing, spawn, reading up to end-of-stream, wait, handoff.  The wait
\* starts only after end-of-stream has been read, and the analyzer is
\* invoked only after the child's exit status has been obtained.
C13_StepsInOrder ==
    /\ Before("probe", "touch")
    /\ Before("touch", "spawn")
    /\ Before("spawn", "read") /\ Before("spawn", "eof")
    /\ Before("eof", "wait")
    /\ Before("wait", "handoff")
    /\ \A i, j \in 1..Len(steps) : (steps[i] = "read" /\ steps[j] = "eof") => i < j
    \* what the steps did
    /\ ProbeRuns # {} => Count("probe") = 1
    /\ touched # <<>> => Count("touch") = 1 /\ ProbeRuns # {}
    /\ Spawned => Count("touch") = 1 /\ Count("spawn") = 1
    /\ pos > 0 => Spawned
    /\ (pc = "wait" \/ Count("wait") > 0) =>
          /\ Count("eof") = 1
          /\ pos = Len(world.stderr)
    /\ IsSome(status) => Count("wait") = 1
    /\ calls # <<>> => IsSome(status) /\ Count("handoff") = 1

C13_Witness ==
    /\ pc = "exited"
    /\ calls # <<>>
    /\ steps = <<"parse", "version_meta", "query", "probe", "command", "touch",
                 "spawn", "read", "read", "read", "eof", "wait", "handoff", "exit">>

\* The steps taken after a step named a.
StepsAfter(a) ==
    {steps[j] : j \in {k \in 1..Len(steps) :
                         \E i \in 1..(k - 1) : steps[i] = a}}

\* C18: nothing is retried.  The probe, the rebuild forcing and the spawn
\* are each made at most once, and exactly once in a run that gets to the
\* build; a failed probe or spawn ends the run; at most one build child is
\* spawned.
C18_NoRetry ==
    /\ Count("version_meta") <= 1
    /\ Count("probe") <= 1 /\ Cardinality(ProbeRuns) = Count("probe")
    /\ Count("touch") <= 1 /\ Len(touched) <= Count("touch")
    /\ Count("spawn") <= 1 /\ Cardinality(BuildRuns) <= Count("spawn")
    /\ Count("spawn") = 1 => Count("probe") = 1 /\ Count("touch") = 1
    /\ result = Err("probe") => /\ StepsAfter("probe") \subseteq {"exit"}
                                /\ BuildRuns = {} /\ touched = <<>>
    /\ result = Err("spawn") => /\ StepsAfter("spawn") \subseteq {"exit"}
                                /\ BuildRuns = {}
    /\ (Count("spawn") = 1 /\ ~world.spawn_ok) => Finished /\ result = Err("spawn")
    /\ (Count("probe") = 1 /\ IsNone(world.probe)) => Finished /\ result = Err("probe")

C18_Witness ==
    /\ pc = "exited"
    /\ result = Err("spawn")
    /\ Count("probe") = 1 /\ Count("touch") = 1 /\ Count("spawn") = 1
    /\ BuildRuns = {}
    /\ exit_code = Some(1)


\* Rebuild forcing ended the run with an error.
TouchAborted == result.kind = "Err" /\ result.msg \in {"walk", "touch"}
EntryTouchesFailed == world.fs.main # "ok" /\ world.fs.lib # "ok"
\* What the walk comes to first: an error, a .rs path, or its end.
WalkErrs ==
    \E i \in 1..Len(world.fs.walk) :
        world.fs.walk[i] = "err" /\ OnlyOthersBefore(world.fs, i)
WalkFindsUntouchable ==
    \E i \in 1..Len(world.fs.walk) :
        world.fs.walk[i] = "rs_denied" /\ OnlyOthersBefore(world.fs, i)
WalkFindsNothing == \A i \in 1..Len(world.fs.walk) : world.fs.walk[i] = "other"

\* C14 as stated: rebuild forcing ends the run only when the directory walk
\* itself errors; failing to touch an entry file is no error; a walk that
\* finds no .rs path touches nothing and the run goes on to the spawn.
C14_AsStated ==
    Count("touch") = 1 =>
        /\ TouchAborted => EntryTouchesFailed /\ WalkErrs
        /\ (EntryTouchesFailed /\ WalkFindsNothing) =>
              touched = <<>> /\ ~TouchAborted
        /\ ~TouchAborted => pc = "spawn" \/ Count("spawn") = 1

\* C14, amended: rebuild forcing ends the run exactly when both entry-file
\* touches failed and the walk errors or the touch of the first .rs path it
\* yields fails; failing to touch an entry file is no error; a walk that
\* finds no .rs path touches nothing and the run goes on to the spawn.
C14_AbortOnWalkOrWalkTouch ==
    Count("touch") = 1 =>
        /\ TouchAborted <=> (EntryTouchesFailed /\ (WalkErrs \/ WalkFindsUntouchable))
        /\ result = Err("walk") <=> (EntryTouchesFailed /\ WalkErrs)
        /\ TouchAborted => touched = <<>>
        /\ (EntryTouchesFailed /\ WalkFindsNothing) =>
              touched = <<>> /\ ~TouchAborted
        /\ ~TouchAborted => pc = "spawn" \/ Count("spawn") = 1

C14_Witness ==
    /\ pc = "exited"
    /\ world.fs.main = "absent" /\ world.fs.lib = "absent"
    /\ WalkFindsUntouchable
    /\ result = Err("touch")
    /\ touched = <<>>
    /\ Count("spawn") = 0

\* C15: a process started with the sentinel takes the interceptor path and
\* nothing else: no argument selection, probe, touch or build.  A process
\* started without it never takes that path.  Every build command sets the
\* sentinel and points RUSTC_WRAPPER at this executable, so a process the
\* build starts from it finds the sentinel; one run spawns at most one build.
C15_ModeFromSentinel ==
    /\ world.sentinel =>
          /\ \A i \in 1..Len(steps) : steps[i] \in {"intercept", "exit"}
          /\ procs = <<>> /\ touched = <<>> /\ calls = <<>>
          /\ file = None /\ cargo = None
    /\ ~world.sentinel => Count("intercept") = 0
    /\ Count("intercept") + Count("parse") <= 1
    /\ steps # <<>> => steps[1] \in {"intercept", "parse"}
    /\ IsSome(cargo) =>
          /\ SentinelPresent(Unwrap(cargo).env)
          /\ Unwrap(cargo).env.RUSTC_WRAPPER = "current_exe"
    /\ Cardinality(BuildRuns) <= 1

C15_Witness ==
    /\ ~world.sentinel
    /\ Spawned
    /\ SentinelPresent(Unwrap(cargo).env)
    /\ Unwrap(cargo).env.RUSTC_WRAPPER = "current_exe"
    /\ pc = "exited"

\* Where the marker lines read so far are on the stream.
RlibRead == {i \in RlibAt : i <= pos}
LlRead == {i \in LlAt : i <= pos}
Last(S) == CHOOSE i \in S : \A j \in S : j <= i

\* C16: each slot holds what follows the prefix on the most recent line of
\* its kind read so far, and is empty when no such line has been read.
C16_SlotIsLatestOfItsKind ==
    /\ compiler_builtins_rlib_path =
          IF RlibRead = {} THEN None
          ELSE Some(Rest(world.stderr[Last(RlibRead)].line,
                         Len(COMPILER_BUILTINS_RLIB_PATH_MARKER)))
    /\ compiler_builtins_ll_path =
          IF LlRead = {} THEN None
          ELSE Some(Rest(world.stderr[Last(LlRead)].line,
                         Len(COMPILER_BUILTINS_LL_PATH_MARKER)))

C16_Witness ==
    /\ EofReached
    /\ Cardinality(RlibRead) = 2
    /\ LlRead = {}
    /\ compiler_builtins_rlib_path = Some(<<" ", "p", " ">>)
    /\ \E i \in RlibRead : world.stderr[i].line =
                              COMPILER_BUILTINS_RLIB_PATH_MARKER \o <<"p">>
    /\ compiler_builtins_ll_path = None


\* The run is over with an exit code.
Exited == pc = "exited" /\ IsSome(exit_code)

\* Every run that spawned the build comes to its exit.
RunTerminates == Spawned ~> Exited

\* C17 as stated: a run that spawned the build comes to an exit code, and it
\* is past reading only when the whole diagnostic stream has been read.
C17_TerminatesAfterReadingAll ==
    /\ RunTerminates
    /\ [](Spawned /\ pc # "read" => pos = Len(world.stderr))

\* C19 as stated: after a successful spawn, run() is over only when the
\* child's exit status has been obtained (a wait that itself fails aside).
C19_WaitedBeforeReturn ==
    (Spawned /\ Finished /\ world.wait_ok) => IsSome(status)

\* C20: a build child that ends without an exit code makes the run report 1
\* without invoking the analyzer; no unsuccessful build is reported as 0.
C20_SignalledBuildReportsOne ==
    /\ (status = Some(None) /\ Finished) =>
          /\ result = Ok(1)
          /\ calls = <<>>
          /\ pc = "exited" => exit_code = Some(1)
    /\ (IsSome(status) /\ Unwrap(status) # Some(0)) =>
          /\ calls = <<>>
          /\ pc = "exited" => exit_code # Some(0)

C20_Witness ==
    /\ status = Some(None)
    /\ pc = "exited"
    /\ exit_code = Some(1)
    /\ calls = <<>>

====
